---------------------------- MODULE Spec2Model ----------------------------
(***************************************************************************)
(* Position lifecycle of the trading bot (src/trading_bot.py): buy         *)
(* commands and entry monitors, the periodic auto-sell pass, manual sells  *)
(* and the forwarding of realized profit.                                  *)
(*                                                                         *)
(* Conventions.                                                            *)
(*  - A step of a coroutine runs from one suspension point to the next.    *)
(*    The suspension points are the awaits that really yield to the event  *)
(*    loop: notifier.send_message (httpx), get_quote_and_swap,             *)
(*    get_token_market_cap and asyncio.sleep.  get_sol_balance and         *)
(*    _get_sol_price_usd only make blocking requests calls and never       *)
(*    yield.  Consecutive suspensions between which the coroutine neither  *)
(*    reads nor writes shared state are one step.                          *)
(*  - Telegram commands are handled one at a time (main.py builds the      *)
(*    Application without concurrent updates); entry monitors and the      *)
(*    scheduled pass are tasks of their own.                               *)
(*  - get_db() yields one Session object (database.py:45-50); every        *)
(*    operation works on that object, so all of them see one copy of each  *)
(*    row.  Operations are modelled from the point where they hold it.     *)
(*  - The auto-sell pass is run as run_scheduled_tasks runs it: one pass    *)
(*    after the other, at any time.                                        *)
(*  - A done callback is queued by call_soon when its task ends, so it     *)
(*    runs before any coroutine that is resumed by later I/O: between the  *)
(*    end of a task and its callback only steps that were already queued  *)
(*    can run, at most one per coroutine.                                  *)
(*  - get_token_market_cap, which the bot calls but jupiter_client.py does *)
(*    not define, answers with a market cap or with None.                  *)
(*  - Floats are exact rationals.  Token quantities are integers counting  *)
(*    1/InvSellFraction of 10^-6 token, so that a quarter of a bought      *)
(*    amount is an integer; SOL amounts are integers.                      *)
(*  - Rows carry the columns the operations read or write; timestamps,     *)
(*    unrealized_pnl_sol, market_cap_at_tx and price_at_tx_usd are left    *)
(*    out.                                                                 *)
(***************************************************************************)
EXTENDS Integers, Sequences, FiniteSets, TLC

VARIABLES
    dryRun,                 \* config.DRY_RUN
    trades,                 \* table "trades": row id = index
    transactions,           \* table "transactions", in insertion order
    transfers,              \* calls of _transfer_realized_pnl that passed its guard
    active_monitor_tasks,   \* TradingBot.active_monitor_tasks: ca -> task id (0: no key)
    monitors,               \* the _monitor_and_buy tasks created so far
    cmd,                    \* the Telegram command being handled
    tick,                   \* the monitor_auto_sell_triggers pass
    firedTiers,             \* history: per trade, the trigger percents that sold
    ready,                  \* event loop: who may still run before a pending done callback
    db_session_generator,   \* TradingBot.db_session_generator: state of the generator
    session_calls           \* history: the calls of _get_db_session and what they got

vars == <<dryRun, trades, transactions, transfers, active_monitor_tasks,
          monitors, cmd, tick, firedTiers, ready, db_session_generator,
          session_calls>>

\* What only _get_db_session touches.
session == <<db_session_generator, session_calls>>

-----------------------------------------------------------------------------
(* Bounds and program constants *)

\* Contract addresses the operator may name.
CAs == {"A"}

\* Number of _monitor_and_buy tasks ever created.
MaxTasks == 2

\* num_checks (10 in dry run, 60 otherwise), scaled down.
NumChecksDry == 1
NumChecksReal == 2

\* sell_amount_ca = initial_ca_bought * 0.25
InvSellFraction == 4

\* trade.current_ca_held >= sell_amount_ca * 0.99
ToleranceNum == 99
ToleranceDen == 100

\* get_sol_balance in dry run
DryRunBalance == 1000

\* 1e-6 token
Eps == InvSellFraction

\* sell_triggers, in insertion order (the fractions 0.25..1.00 are never read)
sell_triggers == <<25, 50, 75, 100>>

\* Values get_token_market_cap may return, besides None.
MarketCaps == {100, 130, 200}

\* target_mc_usd of a /buy command
Targets == {100}

\* percent_of_wallet of a /buy command, in percent
Percents == {100}

\* Wallet balance reported outside dry run.
Balances == {0, 700}

\* outAmount of a buy quote in raw token units (10^-6 token)
RawOuts == {4}

\* SOL a sell quote may return
SolReceived == {350}

None == [some |-> FALSE, v |-> 0]
Some(x) == [some |-> TRUE, v |-> x]

\* JupiterSwapClient.get_token_market_cap is called by the bot but is not
\* defined in jupiter_client.py; it is the market data provider of the
\* specification: a market cap, or None when unavailable.
get_token_market_cap == {None} \cup {Some(m) : m \in MarketCaps}

-----------------------------------------------------------------------------
(* Helpers *)

\* int(x * 10**token_decimals) with the placeholder token_decimals = 6
ToLamports(q) == q \div InvSellFraction

\* get_quote_and_swap: amount / 10**input_mint_decimals, for a 6-decimals mint
Normalize(lamports) == lamports * InvSellFraction

\* Variant of TradesWithCa: neither the query nor the unique index sees a row.
C5_NoRowsSeen(ca) == {}

\* Rows of "trades" with a given ca_address (filter_by / the unique index).
TradesWithCa(ca) == {i \in 1..Len(trades) : trades[i].ca_address = ca}

\* db.query(Trade).filter_by(status="active").all()
ActiveTrades == {i \in 1..Len(trades) : trades[i].status = "active"}

RECURSIVE SetToSeq(_)
SetToSeq(S) == IF S = {} THEN <<>>
               ELSE LET m == CHOOSE x \in S : \A y \in S : x <= y
                    IN <<m>> \o SetToSeq(S \ {m})

\* db.query(Trade).filter_by(ca_address=ca, status="active").first()
FirstActiveTrade(ca) ==
    LET S == TradesWithCa(ca) \cap ActiveTrades
    IN IF S = {} THEN 0 ELSE CHOOSE i \in S : \A j \in S : i <= j

\* Exit fills of a trade: its sell_auto and sell_manual transactions.
ExitFills(id) ==
    {f \in 1..Len(transactions) :
        /\ transactions[f].trade_id = id
        /\ transactions[f].tx_type \in {"sell_auto", "sell_manual"}}

\* Sum of ca_amount over a set of transactions.
RECURSIVE SumCa(_)
SumCa(F) ==
    IF F = {} THEN 0
    ELSE LET f == CHOOSE x \in F : TRUE
         IN transactions[f].ca_amount + SumCa(F \ {f})

\* Sum of pnl_realized_this_tx over a set of transactions.
RECURSIVE SumPnl(_)
SumPnl(F) ==
    IF F = {} THEN 0
    ELSE LET f == CHOOSE x \in F : TRUE
         IN transactions[f].pnl_realized_this_tx + SumPnl(F \ {f})

-----------------------------------------------------------------------------
(* Ledger updates shared by the auto-sell pass and the manual sell *)

\* Variant of CostBasis: the cost of a quarter of the position, whatever is sold.
C10_CostBasisOfOneChunk(t, ca_sold) == t.initial_sol_spent \div InvSellFraction

\* cost_basis_for_chunk = (initial_sol_spent / initial_ca_bought) * ca_sold
\*                        if initial_ca_bought > 0 else 0
CostBasis(t, ca_sold) ==
    IF t.initial_ca_bought > 0
    THEN (t.initial_sol_spent * ca_sold) \div t.initial_ca_bought
    ELSE 0

\* pnl_this_tx = sol_received - cost_basis_for_chunk
PnlThisTx(t, sol_received, ca_sold) == sol_received - CostBasis(t, ca_sold)

\* Variant of AutoSellUpdate: line 281 is missing.
C3_AutoSellUpdateNoPnl(t, sol_received, ca_sold) ==
    [t EXCEPT !.current_ca_held = @ - ca_sold]

\* trade.current_ca_held -= ca_sold; trade.realized_pnl_sol += pnl_this_tx
\* (monitor_auto_sell_triggers)
AutoSellUpdate(t, sol_received, ca_sold) ==
    [t EXCEPT !.current_ca_held = @ - ca_sold,
              !.realized_pnl_sol = @ + PnlThisTx(t, sol_received, ca_sold)]

\* The same two updates, then status = "completed" (handle_manual_sell_command)
ManualSellUpdate(t, sol_received, ca_sold) ==
    [t EXCEPT !.current_ca_held = @ - ca_sold,
              !.realized_pnl_sol = @ + PnlThisTx(t, sol_received, ca_sold),
              !.status = "completed"]

\* Variant of AddTransaction: the row takes the place of the last one.
C21_OverwriteLast(row) ==
    IF transactions = <<>> THEN <<row>>
    ELSE [transactions EXCEPT ![Len(transactions)] = row]

\* db.add(new_transaction); db.commit(): the table with the new row.
AddTransaction(row) == Append(transactions, row)

\* Variant of SellTransaction: the signature is stored as it was returned.
C36_SellFillSigned(id, type, sol_received, ca_sold, pnl) ==
    [trade_id |-> id, tx_type |-> type, sol_amount |-> sol_received,
     ca_amount |-> ca_sold, pnl_realized_this_tx |-> pnl,
     tx_signature |-> TRUE]

\* Transaction(...) of a sell; tx_signature: whether it is not None.
SellTransaction(id, type, sol_received, ca_sold, pnl) ==
    [trade_id |-> id, tx_type |-> type, sol_amount |-> sol_received,
     ca_amount |-> ca_sold, pnl_realized_this_tx |-> pnl,
     tx_signature |-> ~dryRun]

\* Variant of TransferGuard: "<" instead of "<=".
C9_GuardNegativeOnly(pnl) == pnl < 0

\* if pnl_amount_sol <= 0: return
TransferGuard(pnl) == pnl <= 0

\* Variant of TransferRealizedPnl: the call is made for the fill that will
\* be inserted next.
C40_TransferBeforeFill(log, pnl, fill) ==
    IF pnl <= 0 THEN log
    ELSE Append(log, [amount |-> pnl, fill |-> Len(transactions) + 1,
                      simulated |-> dryRun])

\* _transfer_realized_pnl(pnl_amount_sol), called for the fill just inserted
\* (fill: its index, kept as history).  The transfer itself is a placeholder
\* in the code: what happens is the "PNL TRANSFER COMPLETE" notification.

TransferRealizedPnl(log, pnl, fill) ==
    IF TransferGuard(pnl) THEN log
    ELSE Append(log, [amount |-> pnl, fill |-> fill, simulated |-> dryRun])

-----------------------------------------------------------------------------
(* The swap executor: JupiterSwapClient.get_quote_and_swap *)

\* A sell: (None, 0.0, 0.0), or a signature with the SOL received.  Outside
\* dry run the call may also raise (line 345 returns a bare None, which the
\* caller cannot unpack); in dry run the caller catches every exception
\* and goes on as for a failed quote.
SellResults ==
    {[sig |-> FALSE, sol |-> 0, raised |-> FALSE]}
    \cup {[sig |-> TRUE, sol |-> s, raised |-> FALSE] : s \in SolReceived}
    \cup (IF dryRun THEN {} ELSE {[sig |-> FALSE, sol |-> 0, raised |-> TRUE]})

\* A buy: the same, with the raw token amount of the quote.
BuyResults ==
    {[sig |-> FALSE, raw |-> 0, raised |-> FALSE]}
    \cup {[sig |-> TRUE, raw |-> q, raised |-> FALSE] : q \in RawOuts}
    \cup (IF dryRun THEN {} ELSE {[sig |-> FALSE, raw |-> 0, raised |-> TRUE]})

-----------------------------------------------------------------------------
(* monitor_auto_sell_triggers *)

TickIdle == [pc |-> "idle", queue |-> <<>>, mc |-> 0, k |-> 0, amt |-> 0,
             pnl |-> 0, fill |-> 0]

\* buy_price_per_token_usd == 0
BuyPriceZero(t) == t.initial_ca_bought = 0 \/ t.buy_mc_usd = 0

\* Variant of GainReached: the increase is not compared with the trigger.
C26_GainIgnored(t, mc, trigger_percent) == TRUE

\* percentage_increase >= trigger_percent, with
\* percentage_increase = ((current - buy) / buy) * 100 on per-token prices
GainReached(t, mc, trigger_percent) ==
    (mc - t.buy_mc_usd) * 100 >= trigger_percent * t.buy_mc_usd

\* Variant of SellAmountCa: a quarter of what is held.
C25_QuarterOfHeld(t) == t.current_ca_held \div InvSellFraction

\* sell_amount_ca = trade.initial_ca_bought * 0.25
SellAmountCa(t) == t.initial_ca_bought \div InvSellFraction

\* Variant of EnoughHeld: the quantity held is not tested.
C27_HeldIgnored(t) == TRUE

\* trade.current_ca_held >= sell_amount_ca * 0.99
EnoughHeld(t) ==
    t.current_ca_held * InvSellFraction * ToleranceDen
        >= t.initial_ca_bought * ToleranceNum

\* The condition of line 228-229 for the k-th entry of sell_triggers.
TierCond(t, mc, k) == GainReached(t, mc, sell_triggers[k]) /\ EnoughHeld(t)

\* Variant of FirstFiring: the loop over sell_triggers starts again at its
\* first entry.
C24_FirstFiringAgain(t, mc, k) ==
    LET S == {j \in 1..Len(sell_triggers) : TierCond(t, mc, j)}
    IN IF S = {} THEN 0 ELSE CHOOSE j \in S : \A i \in S : j <= i

\* The first entry from k on whose condition holds, 0 when there is none.
FirstFiring(t, mc, k) ==
    LET S == {j \in k..Len(sell_triggers) : TierCond(t, mc, j)}
    IN IF S = {} THEN 0 ELSE CHOOSE j \in S : \A i \in S : j <= i

\* Variant of CompletionCheck: a trade that does not pass the test is set
\* to "active".
C20_CompletionOrActive(t) ==
    IF t.current_ca_held < Eps /\ t.status # "completed"
    THEN [t EXCEPT !.status = "completed"]
    ELSE [t EXCEPT !.status = "active"]

\* if trade.current_ca_held < 1e-6 and trade.status != "completed"
CompletionCheck(t) ==
    IF t.current_ca_held < Eps /\ t.status # "completed"
    THEN [t EXCEPT !.status = "completed"]
    ELSE t

\* Variant of TickAdvance: the pass ends.
C30_PassEnds == TickIdle

\* for trade in trades: the next trade of the pass, or its end.
TickAdvance ==
    LET q == Tail(tick.queue)
    IN IF q = <<>> THEN TickIdle
       ELSE [TickIdle EXCEPT !.pc = "fetch", !.queue = q]

\* The tier loop from entry k on, up to the next await: either the send
\* and swap of the first entry whose condition holds, or the completion
\* check of line 324 and the next trade.
TickContinue(id, mc, k) ==
    LET j == FirstFiring(trades[id], mc, k)
    IN IF j > 0
       THEN /\ tick' = [TickIdle EXCEPT !.pc = "swap", !.queue = tick.queue,
                                        !.mc = mc, !.k = j,
                                        !.amt = SellAmountCa(trades[id])]
            /\ UNCHANGED trades
       ELSE /\ trades' = [trades EXCEPT ![id] = CompletionCheck(@)]
            /\ tick' = TickAdvance

\* trades = db.query(Trade).filter_by(status="active").all()
TickStart ==
    /\ tick.pc = "idle"
    /\ ActiveTrades # {}
    /\ tick' = [TickIdle EXCEPT !.pc = "fetch", !.queue = SetToSeq(ActiveTrades)]
    /\ UNCHANGED <<firedTiers, dryRun, session, trades, transactions, transfers,
                   active_monitor_tasks, monitors, cmd>>

\* current_mc = await get_token_market_cap(trade.ca_address), lines 194-229
TickFetched(r) ==
    /\ tick.pc = "fetch"
    /\ LET id == Head(tick.queue)
           t == trades[id]
       IN IF ~r.some \/ BuyPriceZero(t)
          THEN tick' = TickAdvance /\ UNCHANGED trades
          ELSE IF t.current_ca_held > 0
          THEN TickContinue(id, r.v, 1)
          ELSE /\ trades' = [trades EXCEPT ![id] = CompletionCheck(@)]
               /\ tick' = TickAdvance
    /\ UNCHANGED <<firedTiers, dryRun, session, transactions, transfers, active_monitor_tasks,
                   monitors, cmd>>

\* The swap of lines 246-274 returns; lines 276-306 on a signature.
TickSwapResult(r) ==
    /\ tick.pc = "swap"
    /\ LET id == Head(tick.queue)
           t == trades[id]
           ca_sold == IF dryRun THEN tick.amt
                      ELSE Normalize(ToLamports(tick.amt))
           pnl == PnlThisTx(t, r.sol, ca_sold)
       IN IF r.raised
          THEN tick' = TickIdle /\ UNCHANGED <<trades, transactions, firedTiers>>
          ELSE IF r.sig
          THEN /\ trades' = [trades EXCEPT ![id] = AutoSellUpdate(t, r.sol, ca_sold)]
               /\ transactions' = AddTransaction(
                      SellTransaction(id, "sell_auto", r.sol, ca_sold, pnl))
               /\ firedTiers' = [firedTiers EXCEPT ![id] =
                                     @ \cup {sell_triggers[tick.k]}]
               /\ tick' = [tick EXCEPT !.pc = "sold", !.amt = 0, !.pnl = pnl,
                                       !.fill = Len(transactions) + 1]
          ELSE /\ tick' = [tick EXCEPT !.pc = "failed", !.amt = 0]
               /\ UNCHANGED <<trades, transactions, firedTiers>>
    /\ UNCHANGED <<dryRun, session, transfers, active_monitor_tasks,
                   monitors, cmd>>

\* After the success message: if not DRY_RUN: _transfer_realized_pnl(pnl_this_tx),
\* then the next entries of sell_triggers.
TickSold ==
    /\ tick.pc = "sold"
    /\ transfers' = IF dryRun THEN transfers
                    ELSE TransferRealizedPnl(transfers, tick.pnl, tick.fill)
    /\ TickContinue(Head(tick.queue), tick.mc, tick.k + 1)
    /\ UNCHANGED <<firedTiers, dryRun, session, transactions, active_monitor_tasks, monitors, cmd>>

\* After the failure message: the next entries of sell_triggers.
TickFailed ==
    /\ tick.pc = "failed"
    /\ TickContinue(Head(tick.queue), tick.mc, tick.k + 1)
    /\ UNCHANGED <<firedTiers, dryRun, session, transactions, transfers, active_monitor_tasks,
                   monitors, cmd>>

-----------------------------------------------------------------------------
(* handle_manual_sell_command *)

CmdIdle == [pc |-> "idle", kind |-> "none", ca |-> "", id |-> 0, target |-> 0,
            sol |-> 0, lamports |-> 0, ca_sold |-> 0, pnl |-> 0, fill |-> 0,
            reason |-> "", queue |-> <<>>, lines |-> <<>>]

\* An error message is being sent; the command returns after it.
Reject(kind, ca, reason) ==
    [CmdIdle EXCEPT !.pc = "reject", !.kind = kind, !.ca = ca, !.reason = reason]

\* Lines 340-357: the query and the two checks, up to the first message.
CmdSell(ca) ==
    /\ cmd.pc = "idle"
    /\ LET id == FirstActiveTrade(ca)
       IN cmd' = IF id = 0 THEN Reject("sell", ca, "no_active_trade")
                 ELSE IF trades[id].current_ca_held <= 0
                 THEN [CmdIdle EXCEPT !.pc = "sell_none", !.kind = "sell",
                                      !.ca = ca, !.id = id]
                 ELSE [CmdIdle EXCEPT !.pc = "sell_init", !.kind = "sell",
                                      !.ca = ca, !.id = id]
    /\ UNCHANGED <<firedTiers, dryRun, session, trades, transactions, transfers,
                   active_monitor_tasks, monitors, tick>>

\* Lines 347-350, after the "No tokens to sell" message.
CmdSellNone ==
    /\ cmd.pc = "sell_none"
    /\ trades' = [trades EXCEPT ![cmd.id].status = "completed"]
    /\ cmd' = CmdIdle
    /\ UNCHANGED <<firedTiers, dryRun, session, transactions, transfers, active_monitor_tasks,
                   monitors, tick>>

\* Lines 359-388, after the "MANUAL SELL INITIATED" message: the amount is
\* read from the trade and the swap is called.
CmdSellCall ==
    /\ cmd.pc = "sell_init"
    /\ cmd' = [cmd EXCEPT !.pc = "sell_swap",
                          !.lamports = ToLamports(trades[cmd.id].current_ca_held),
                          !.ca_sold = trades[cmd.id].current_ca_held]
    /\ UNCHANGED <<firedTiers, dryRun, session, trades, transactions, transfers,
                   active_monitor_tasks, monitors, tick>>

\* Variant of CmdSellSwapResult: a swap without a signature closes the trade.
C39_FailedCloseCompletes(r) ==
    /\ cmd.pc = "sell_swap"
    /\ cmd' = IF r.raised \/ ~r.sig THEN CmdIdle
              ELSE [cmd EXCEPT !.pc = "sell_mc", !.sol = r.sol, !.lamports = 0,
                               !.ca_sold = IF dryRun THEN @
                                           ELSE Normalize(cmd.lamports)]
    /\ trades' = IF r.sig THEN trades
                 ELSE [trades EXCEPT ![cmd.id].status = "completed"]
    /\ UNCHANGED <<firedTiers, dryRun, session, transactions, transfers,
                   active_monitor_tasks, monitors, tick>>

\* The swap returns: no signature ends the command with the failure
\* message; with a signature the market cap is fetched (line 391).
CmdSellSwapResult(r) ==
    /\ cmd.pc = "sell_swap"
    /\ cmd' = IF r.raised \/ ~r.sig THEN CmdIdle
              ELSE [cmd EXCEPT !.pc = "sell_mc", !.sol = r.sol, !.lamports = 0,
                               !.ca_sold = IF dryRun THEN @
                                           ELSE Normalize(cmd.lamports)]
    /\ UNCHANGED <<firedTiers, dryRun, session, trades, transactions, transfers,
                   active_monitor_tasks, monitors, tick>>

\* Lines 392-417, once the market cap is back.
CmdSellApply ==
    /\ cmd.pc = "sell_mc"
    /\ LET t == trades[cmd.id]
           pnl == PnlThisTx(t, cmd.sol, cmd.ca_sold)
       IN /\ trades' = [trades EXCEPT ![cmd.id] =
                            ManualSellUpdate(t, cmd.sol, cmd.ca_sold)]
          /\ transactions' = AddTransaction(
                 SellTransaction(cmd.id, "sell_manual", cmd.sol, cmd.ca_sold,
                                 pnl))
          /\ cmd' = [CmdIdle EXCEPT !.pc = "sell_sent", !.kind = "sell",
                                    !.ca = cmd.ca, !.id = cmd.id, !.pnl = pnl,
                                    !.fill = Len(transactions) + 1]
    /\ UNCHANGED <<firedTiers, dryRun, session, transfers, active_monitor_tasks, monitors, tick>>

\* Lines 426-427, after the success message.
CmdSellSent ==
    /\ cmd.pc = "sell_sent"
    /\ transfers' = IF dryRun THEN transfers
                    ELSE TransferRealizedPnl(transfers, cmd.pnl, cmd.fill)
    /\ cmd' = CmdIdle
    /\ UNCHANGED <<firedTiers, dryRun, session, trades, transactions, active_monitor_tasks,
                   monitors, tick>>

\* The error message of a rejected command has been sent.
CmdRejected ==
    /\ cmd.pc = "reject"
    /\ cmd' = CmdIdle
    /\ UNCHANGED <<firedTiers, dryRun, session, trades, transactions, transfers,
                   active_monitor_tasks, monitors, tick>>

-----------------------------------------------------------------------------
(* handle_buy_command and _monitor_and_buy *)

\* asyncio.Task.done()
TaskDone(m) == monitors[m].pc \in {"done", "cleaned"}

\* Variant of MonitorRunning: the check of lines 35-37 is missing.
C13_NoMonitorCheck(ca) == FALSE

\* ca_address in self.active_monitor_tasks and not ...[ca_address].done()
MonitorRunning(ca) ==
    active_monitor_tasks[ca] # 0 /\ ~TaskDone(active_monitor_tasks[ca])

\* Variant of ExistingTrade: the check of lines 39-42 is missing.
C4_NoExistingTradeCheck(ca) == FALSE

\* existing_trade = db.query(Trade).filter_by(ca_address=..., status="active").first()
ExistingTrade(ca) == FirstActiveTrade(ca) # 0

\* num_checks = 10 if is_dry_run else 60
NumChecks == IF dryRun THEN NumChecksDry ELSE NumChecksReal

\* Lines 35-62: the checks, up to the message that is sent before the task
\* is created.  bal is what get_sol_balance returns outside dry run.
CmdBuy(ca, target, pct, bal) ==
    /\ cmd.pc = "idle"
    /\ Len(monitors) < MaxTasks
    /\ LET sol_balance == IF dryRun THEN DryRunBalance ELSE bal
           sol_to_use == (sol_balance * pct) \div 100
       IN cmd' = IF MonitorRunning(ca) THEN Reject("buy", ca, "monitor_running")
                 ELSE IF ExistingTrade(ca) THEN Reject("buy", ca, "trade_exists")
                 ELSE IF sol_balance <= 0 /\ ~dryRun
                 THEN Reject("buy", ca, "no_balance")
                 ELSE IF sol_to_use = 0 THEN Reject("buy", ca, "zero_sol")
                 ELSE [CmdIdle EXCEPT !.pc = "buy_init", !.kind = "buy",
                                      !.ca = ca, !.target = target,
                                      !.sol = sol_to_use]
    /\ UNCHANGED <<firedTiers, dryRun, session, trades, transactions, transfers,
                   active_monitor_tasks, monitors, tick>>

\* Lines 65-73: the task is created and stored under its ca_address.
CmdBuySpawn ==
    /\ cmd.pc = "buy_init"
    /\ monitors' = Append(monitors,
           [ca |-> cmd.ca, target |-> cmd.target, sol |-> cmd.sol,
            pc |-> "poll", i |-> 0, mc |-> 0, out |-> "", msgs |-> 0,
            swapped |-> FALSE])
    /\ active_monitor_tasks' =
           [active_monitor_tasks EXCEPT ![cmd.ca] = Len(monitors) + 1]
    /\ cmd' = CmdIdle
    /\ UNCHANGED <<firedTiers, dryRun, session, trades, transactions, transfers, tick>>

\* One of the status messages of the task has been sent: BUY SUCCESS,
\* BUY FAILED, "Buy monitoring concluded" or "Critical error" (history).
Told(mon) == [mon EXCEPT !.msgs = @ + 1]

\* The coroutine has returned or raised: its locals are gone, the Task
\* object remains (done() is true) until its done callback has run.  out is
\* how it ended, kept as history with msgs and swapped (whether one of its
\* swaps returned a signature).
Finished(mon, out) ==
    [ca |-> mon.ca, target |-> 0, sol |-> 0, pc |-> "done", i |-> 0, mc |-> 0,
     out |-> out, msgs |-> mon.msgs, swapped |-> mon.swapped]

\* Variant of NextCheck: the loop has no last turn.
C11_NextCheckUnbounded(mon) == [mon EXCEPT !.pc = "poll", !.i = @ + 1]

\* await asyncio.sleep(...), then the next turn of the loop, or its end and
\* the "Buy monitoring concluded" message.
NextCheck(mon) ==
    IF mon.i + 1 >= NumChecks THEN Finished(Told(mon), "concluded")
    ELSE [mon EXCEPT !.pc = "poll", !.i = @ + 1]

\* Variant of TargetReached: every poll buys.
C22_TargetIgnored(r, target_mc_usd) == TRUE

\* current_mc is not None, and current_mc <= target_mc_usd
TargetReached(r, target_mc_usd) == r.some /\ r.v <= target_mc_usd

\* current_mc = await get_token_market_cap(ca_address), lines 92-134
MonPolled(m, r) ==
    /\ m \in 1..Len(monitors)
    /\ monitors[m].pc = "poll"
    /\ monitors' = [monitors EXCEPT ![m] =
           IF TargetReached(r, @.target)
           THEN [@ EXCEPT !.pc = "swap", !.mc = r.v]
           ELSE NextCheck(@)]
    /\ UNCHANGED <<firedTiers, dryRun, session, trades, transactions, transfers,
                   active_monitor_tasks, cmd, tick>>

\* Trade(...) of lines 137-144; the other columns take their defaults.
NewTrade(ca, mc, sol_spent, ca_bought) ==
    [ca_address |-> ca, buy_mc_usd |-> mc, initial_sol_spent |-> sol_spent,
     initial_ca_bought |-> ca_bought, current_ca_held |-> ca_bought,
     realized_pnl_sol |-> 0, status |-> "active"]

\* Variant of BuyTransaction: the row does not carry the id of the trade.
C15_BuyFillUnlinked(id, sol_spent, ca_bought) ==
    [trade_id |-> 0, tx_type |-> "buy", sol_amount |-> sol_spent,
     ca_amount |-> ca_bought, pnl_realized_this_tx |-> 0,
     tx_signature |-> ~dryRun]

\* Transaction(...) of lines 149-157
BuyTransaction(id, sol_spent, ca_bought) ==
    [trade_id |-> id, tx_type |-> "buy", sol_amount |-> sol_spent,
     ca_amount |-> ca_bought, pnl_realized_this_tx |-> 0,
     tx_signature |-> ~dryRun]

\* ca_address = Column(String, unique=True, ...): the commit of line 146
\* raises when a row with this ca_address exists.
UniqueViolation(ca) == TradesWithCa(ca) # {}

\* The swap of lines 106-134 returns; lines 136-171.
MonSwapResult(m, r) ==
    /\ m \in 1..Len(monitors)
    /\ monitors[m].pc = "swap"
    /\ LET mon == monitors[m]
           ca_bought == Normalize(r.raw)
           got == [mon EXCEPT !.swapped = @ \/ r.sig]
       IN IF r.raised \/ (r.sig /\ UniqueViolation(mon.ca))
          THEN /\ monitors' = [monitors EXCEPT ![m] =
                                   Finished(Told(got), "error")]
               /\ UNCHANGED <<trades, transactions, firedTiers>>
          ELSE IF r.sig
          THEN /\ trades' = Append(trades,
                      NewTrade(mon.ca, mon.mc, mon.sol, ca_bought))
               /\ transactions' = AddTransaction(
                      BuyTransaction(Len(trades) + 1, mon.sol, ca_bought))
               /\ firedTiers' = Append(firedTiers, {})
               /\ monitors' = [monitors EXCEPT ![m] =
                                   Finished(Told(got), "bought")]
          ELSE /\ monitors' = [monitors EXCEPT ![m] = NextCheck(Told(got))]
               /\ UNCHANGED <<trades, transactions, firedTiers>>
    /\ UNCHANGED <<dryRun, session, transfers, active_monitor_tasks,
                   cmd, tick>>

\* Variant of CleanedMap: the callback deletes nothing.
C14_MapKept(m) == active_monitor_tasks

\* if ca_address in self.active_monitor_tasks: del ...[ca_address]
CleanedMap(m) == [active_monitor_tasks EXCEPT ![monitors[m].ca] = 0]

\* Tasks that have ended and whose done callback has not run yet.
PendingCallbacks(mons) == {m \in 1..Len(mons) : mons[m].pc = "done"}

\* cleanup_task, the done callback of the task; nothing refers to the Task
\* object after it.
CleanupTask(m) ==
    /\ m \in 1..Len(monitors)
    /\ monitors[m].pc = "done"
    /\ monitors' = [monitors EXCEPT ![m] =
                        [Finished(@, "") EXCEPT !.pc = "cleaned", !.msgs = 0,
                                                !.swapped = FALSE]]
    /\ active_monitor_tasks' = CleanedMap(m)
    /\ ready' = IF PendingCallbacks(monitors') = {} THEN {} ELSE ready
    /\ UNCHANGED <<firedTiers, dryRun, session, trades, transactions, transfers, cmd, tick>>

-----------------------------------------------------------------------------
(* The event loop *)

\* The coroutines: the entry monitors by their number, the command handler
\* and the scheduled pass.
CmdProc == MaxTasks + 1
TickProc == MaxTasks + 2
Procs == 1..(MaxTasks + 2)

\* Coroutine p runs one step.  While a done callback is pending, only the
\* coroutines whose step was queued before it may run, once; a task that
\* is created meanwhile is queued behind the callback.
Ran(p) ==
    /\ PendingCallbacks(monitors) # {} => p \in ready
    /\ ready' = IF PendingCallbacks(monitors') = {} THEN {}
                ELSE (IF PendingCallbacks(monitors) = {} THEN Procs ELSE ready)
                         \ ({p} \cup (Len(monitors) + 1)..Len(monitors'))

-----------------------------------------------------------------------------
(* The program *)

Init ==
    /\ dryRun \in BOOLEAN
    /\ trades = <<>>
    /\ transactions = <<>>
    /\ transfers = <<>>
    /\ active_monitor_tasks = [ca \in CAs |-> 0]
    /\ monitors = <<>>
    /\ cmd = CmdIdle
    /\ tick = TickIdle
    /\ firedTiers = <<>>
    /\ ready = {}
    /\ db_session_generator = "created"
    /\ session_calls = <<>>

Next ==
    \/ \E ca \in CAs, target \in Targets, pct \in Percents, bal \in Balances :
           CmdBuy(ca, target, pct, bal) /\ Ran(CmdProc)
    \/ CmdBuySpawn /\ Ran(CmdProc)
    \/ \E m \in 1..MaxTasks, r \in get_token_market_cap :
           MonPolled(m, r) /\ Ran(m)
    \/ \E m \in 1..MaxTasks, r \in BuyResults : MonSwapResult(m, r) /\ Ran(m)
    \/ \E m \in 1..MaxTasks : CleanupTask(m)
    \/ TickStart /\ Ran(TickProc)
    \/ \E r \in get_token_market_cap : TickFetched(r) /\ Ran(TickProc)
    \/ \E r \in SellResults : TickSwapResult(r) /\ Ran(TickProc)
    \/ TickSold /\ Ran(TickProc)
    \/ TickFailed /\ Ran(TickProc)
    \/ \E ca \in CAs : CmdSell(ca) /\ Ran(CmdProc)
    \/ CmdSellNone /\ Ran(CmdProc)
    \/ CmdSellCall /\ Ran(CmdProc)
    \/ \E r \in SellResults : CmdSellSwapResult(r) /\ Ran(CmdProc)
    \/ CmdSellApply /\ Ran(CmdProc)
    \/ CmdSellSent /\ Ran(CmdProc)
    \/ CmdRejected /\ Ran(CmdProc)

Spec == Init /\ [][Next]_vars

\* Shape of the state.
TypeOK ==
    /\ dryRun \in BOOLEAN
    /\ \A i \in 1..Len(trades) :
           /\ trades[i].status \in {"active", "completed"}
           /\ trades[i].initial_ca_bought # 0
                  => (trades[i].initial_sol_spent * trades[i].current_ca_held)
                         % trades[i].initial_ca_bought = 0
    /\ Len(monitors) <= MaxTasks
    /\ tick.pc \in {"idle", "fetch", "swap", "sold", "failed"}

-----------------------------------------------------------------------------
(* A repeated settlement call *)

\* Number of repeated calls of _transfer_realized_pnl in SpecResettle.
MaxRepeats == 1

\* Transfers logged for a fill.
TransfersOf(f) == {i \in 1..Len(transfers) : transfers[i].fill = f}

\* _transfer_realized_pnl is called once more with the amount of the fill
\* whose transfer was made last (a retried or duplicated call).  The
\* function receives the amount only.
Resettle(f) ==
    /\ f \in 1..Len(transactions)
    /\ transactions[f].tx_type \in {"sell_auto", "sell_manual"}
    /\ transfers # <<>>
    /\ transfers[Len(transfers)].fill = f
    /\ Len(transfers) - Cardinality({transfers[i].fill : i \in 1..Len(transfers)})
           < MaxRepeats
    /\ transfers' = TransferRealizedPnl(transfers,
                        transactions[f].pnl_realized_this_tx, f)
    /\ UNCHANGED <<dryRun, session, trades, transactions, active_monitor_tasks,
                   monitors, cmd, tick, firedTiers, ready>>

NextResettle ==
    \/ Next
    \/ \E f \in 1..Len(transactions) : Resettle(f)

SpecResettle == Init /\ [][NextResettle]_vars

-----------------------------------------------------------------------------
(* The pass over two positions *)

\* Contract addresses of the trades the database holds when the bot starts.
HeldCAs == <<"A", "B">>

\* The bot is started on a database that holds one active trade, with its
\* buy transaction, for each of HeldCAs; no command is given.
InitHeld ==
    /\ dryRun \in BOOLEAN
    /\ \E mc \in {v \in MarketCaps : \E tg \in Targets : v <= tg},
          bal \in Balances \ {0}, q \in RawOuts :
           LET sol == IF dryRun THEN DryRunBalance ELSE bal
           IN /\ trades = [i \in 1..Len(HeldCAs) |->
                              NewTrade(HeldCAs[i], mc, sol, Normalize(q))]
              /\ transactions = [i \in 1..Len(HeldCAs) |->
                                    BuyTransaction(i, sol, Normalize(q))]
    /\ transfers = <<>>
    /\ active_monitor_tasks = [ca \in CAs |-> 0]
    /\ monitors = <<>>
    /\ cmd = CmdIdle
    /\ tick = TickIdle
    /\ firedTiers = [i \in 1..Len(HeldCAs) |-> {}]
    /\ ready = {}
    /\ db_session_generator = "created"
    /\ session_calls = <<>>

\* run_scheduled_tasks alone: one pass after the other.
NextTick ==
    \/ TickStart /\ Ran(TickProc)
    \/ \E r \in get_token_market_cap : TickFetched(r) /\ Ran(TickProc)
    \/ \E r \in SellResults : TickSwapResult(r) /\ Ran(TickProc)
    \/ TickSold /\ Ran(TickProc)
    \/ TickFailed /\ Ran(TickProc)

SpecTick == InitHeld /\ [][NextTick]_vars

-----------------------------------------------------------------------------
(* The program as main.py starts it *)

\* What runs after application.run_polling(): the command handlers, the
\* monitors they create and their done callbacks.  Nothing creates a task
\* for run_scheduled_tasks.  Without the pass an active trade always holds
\* tokens, so a manual sell never takes its "No tokens to sell" branch.
NextMain ==
    \/ \E ca \in CAs, target \in Targets, pct \in Percents, bal \in Balances :
           CmdBuy(ca, target, pct, bal) /\ Ran(CmdProc)
    \/ CmdBuySpawn /\ Ran(CmdProc)
    \/ \E m \in 1..MaxTasks, r \in get_token_market_cap :
           MonPolled(m, r) /\ Ran(m)
    \/ \E m \in 1..MaxTasks, r \in BuyResults : MonSwapResult(m, r) /\ Ran(m)
    \/ \E m \in 1..MaxTasks : CleanupTask(m)
    \/ \E ca \in CAs : CmdSell(ca) /\ Ran(CmdProc)
    \/ CmdSellCall /\ Ran(CmdProc)
    \/ \E r \in SellResults : CmdSellSwapResult(r) /\ Ran(CmdProc)
    \/ CmdSellApply /\ Ran(CmdProc)
    \/ CmdSellSent /\ Ran(CmdProc)
    \/ CmdRejected /\ Ran(CmdProc)

\* The event loop keeps running whatever is ready.
SpecMain == Init /\ [][NextMain]_vars /\ WF_vars(NextMain)

-----------------------------------------------------------------------------
(* A quote for no tokens *)

\* get_quote_and_swap answers a buy with a signature and an amount of zero:
\* the quote carries outAmount "0", a string that the test
\* "not quote.get('outAmount')" lets pass and that int() turns into 0.
ZeroQuote == [sig |-> TRUE, raw |-> 0, raised |-> FALSE]

NextZeroQuote ==
    \/ Next
    \/ \E m \in 1..MaxTasks : MonSwapResult(m, ZeroQuote) /\ Ran(m)

SpecZeroQuote == Init /\ [][NextZeroQuote]_vars

-----------------------------------------------------------------------------
(* The program, or the pass over two positions *)

\* Either the program on an empty database, which never holds more than
\* one trade, or the pass alone on the database of InitHeld.
InitEither == Init \/ InitHeld

NextEither ==
    \/ Len(trades) < Len(HeldCAs) /\ Next
    \/ Len(trades) = Len(HeldCAs) /\ NextTick

SpecEither == InitEither /\ [][NextEither]_vars

-----------------------------------------------------------------------------
(* A buy command for an address that is no token *)

\* A ca_address that names no token mint.  Neither buy_command (main.py) nor
\* handle_buy_command looks at the address.
InvalidCa == "not-a-mint"

InitInvalidCa ==
    /\ dryRun \in BOOLEAN
    /\ trades = <<>>
    /\ transactions = <<>>
    /\ transfers = <<>>
    /\ active_monitor_tasks = [ca \in {InvalidCa} |-> 0]
    /\ monitors = <<>>
    /\ cmd = CmdIdle
    /\ tick = TickIdle
    /\ firedTiers = <<>>
    /\ ready = {}
    /\ db_session_generator = "created"
    /\ session_calls = <<>>

\* target_mc_usd and percent_of_wallet of the buy commands for InvalidCa
InvalidCaTargets == {100, 200}
InvalidCaPercents == {50, 100}

\* Buy and sell commands for InvalidCa and the monitors they create; the
\* market data provider has no value for such an address.
NextInvalidCa ==
    \/ \E target \in InvalidCaTargets, pct \in InvalidCaPercents, bal \in Balances :
           CmdBuy(InvalidCa, target, pct, bal) /\ Ran(CmdProc)
    \/ CmdBuySpawn /\ Ran(CmdProc)
    \/ \E m \in 1..MaxTasks : MonPolled(m, None) /\ Ran(m)
    \/ \E m \in 1..MaxTasks : CleanupTask(m)
    \/ CmdSell(InvalidCa) /\ Ran(CmdProc)
    \/ CmdRejected /\ Ran(CmdProc)

SpecInvalidCa == InitInvalidCa /\ [][NextInvalidCa]_vars

-----------------------------------------------------------------------------
(* A commit that fails *)

\* The swap of the pass returned a signature and the commit of line 292
\* stored the trade; the commit of line 306, which inserts the transaction,
\* raises.  The handler of line 329 reports the error and the pass ends.
TickFillInsertFails(r) ==
    /\ tick.pc = "swap"
    /\ r.sig /\ ~r.raised
    /\ LET id == Head(tick.queue)
           t == trades[id]
           ca_sold == IF dryRun THEN tick.amt
                      ELSE Normalize(ToLamports(tick.amt))
       IN /\ trades' = [trades EXCEPT ![id] = AutoSellUpdate(t, r.sol, ca_sold)]
          /\ firedTiers' = [firedTiers EXCEPT ![id] =
                                @ \cup {sell_triggers[tick.k]}]
    /\ tick' = TickIdle
    /\ UNCHANGED <<dryRun, session, transactions, transfers, active_monitor_tasks,
                   monitors, cmd>>

\* The same in the manual sell: the commit of line 403 stored the trade,
\* the commit of line 417 raises; the handler of line 431 reports the
\* error and the command returns.
CmdSellFillInsertFails ==
    /\ cmd.pc = "sell_mc"
    /\ trades' = [trades EXCEPT ![cmd.id] =
                      ManualSellUpdate(trades[cmd.id], cmd.sol, cmd.ca_sold)]
    /\ cmd' = CmdIdle
    /\ UNCHANGED <<firedTiers, dryRun, session, transactions, transfers,
                   active_monitor_tasks, monitors, tick>>

\* No commit has failed so far: every trade holds what it bought less the
\* quantities of its exit fills.
NoCommitFailed ==
    \A id \in 1..Len(trades) :
        trades[id].current_ca_held
            = trades[id].initial_ca_bought - SumCa(ExitFills(id))

\* The program, in which one commit of an exit fill may fail.
NextCommitFails ==
    \/ Next
    \/ /\ NoCommitFailed
       /\ \E r \in SellResults : TickFillInsertFails(r) /\ Ran(TickProc)
    \/ NoCommitFailed /\ CmdSellFillInsertFails /\ Ran(CmdProc)

SpecCommitFails == Init /\ [][NextCommitFails]_vars

-----------------------------------------------------------------------------
(* generate_pnl_report *)

\* Values of _get_sol_price_usd, in USD for one SOL: 0.0 when the quote
\* request fails or carries no price.
SolPrices == {0, 5, 10}

\* trade.unrealized_pnl_sol of lines 445-455.  The quotients are exact where
\* the report is run: the prices divide the market caps and a trade holds
\* all that it bought.
UnrealizedPnlSol(t, current_mc, current_sol_price_usd) ==
    IF current_mc.some /\ t.current_ca_held > 0 /\ t.initial_ca_bought > 0
    THEN LET \* current_price_per_token_sol * initial_ca_bought
             price_sol == IF current_sol_price_usd > 0
                          THEN current_mc.v \div current_sol_price_usd
                          ELSE 0
         IN ((price_sol - t.initial_sol_spent) * t.current_ca_held)
                \div t.initial_ca_bought
    ELSE 0

\* trades = db.query(Trade).all(); without a trade the "No active trades"
\* message is sent.
CmdReport ==
    /\ cmd.pc = "idle"
    /\ cmd' = [CmdIdle EXCEPT !.pc = IF trades = <<>> THEN "report_send"
                                     ELSE "report",
                              !.kind = "report",
                              !.queue = [i \in 1..Len(trades) |-> i]]
    /\ UNCHANGED <<firedTiers, dryRun, session, trades, transactions, transfers,
                   active_monitor_tasks, monitors, tick>>

\* current_mc = await get_token_market_cap(trade.ca_address) returns for
\* the next trade; rate is what _get_sol_price_usd answers.  Lines 445-478:
\* the line of the report for this trade, with its realized and unrealized
\* result.
CmdReportFetched(r, rate) ==
    /\ cmd.pc = "report"
    /\ LET id == Head(cmd.queue)
           t == trades[id]
       IN cmd' = [cmd EXCEPT
                     !.pc = IF Tail(cmd.queue) = <<>> THEN "report_send"
                            ELSE "report",
                     !.queue = Tail(cmd.queue),
                     !.lines = Append(@,
                         [trade_id |-> id,
                          realized_pnl_sol |-> t.realized_pnl_sol,
                          unrealized_pnl_sol |-> UnrealizedPnlSol(t, r, rate)])]
    /\ UNCHANGED <<firedTiers, dryRun, session, trades, transactions, transfers,
                   active_monitor_tasks, monitors, tick>>

\* The report has been sent.
CmdReportSent ==
    /\ cmd.pc = "report_send"
    /\ cmd' = CmdIdle
    /\ UNCHANGED <<firedTiers, dryRun, session, trades, transactions, transfers,
                   active_monitor_tasks, monitors, tick>>

\* /report commands on the database of InitHeld.
NextReport ==
    \/ CmdReport /\ Ran(CmdProc)
    \/ \E r \in get_token_market_cap, rate \in SolPrices :
           CmdReportFetched(r, rate) /\ Ran(CmdProc)
    \/ CmdReportSent /\ Ran(CmdProc)

SpecReport == InitHeld /\ [][NextReport]_vars

-----------------------------------------------------------------------------
(* _get_db_session *)

\* Number of calls of _get_db_session in SpecSession.
MaxCalls == 3

\* The operations that call _get_db_session in their first line.
Operations == {"handle_buy_command", "_monitor_and_buy",
               "monitor_auto_sell_triggers", "handle_manual_sell_command",
               "generate_pnl_report"}

\* next(self.db_session_generator) on get_db (database.py:45-50).  A
\* generator that has not started runs to its yield and gives the session;
\* one that is suspended at the yield resumes, closes the session in its
\* finally and ends, and next() raises StopIteration, as it does on a
\* generator that has ended.
GeneratorNext(gen) ==
    IF gen = "created" THEN [state |-> "suspended", session |-> TRUE]
    ELSE [state |-> "closed", session |-> FALSE]

\* db = await self._get_db_session(), the first line of operation op.  A
\* monitor is created by a buy command that obtained its session.
GetDbSession(op) ==
    /\ Len(session_calls) < MaxCalls
    /\ op = "_monitor_and_buy"
           => \E i \in 1..Len(session_calls) :
                  /\ session_calls[i].op = "handle_buy_command"
                  /\ session_calls[i].session
    /\ db_session_generator' = GeneratorNext(db_session_generator).state
    /\ session_calls' = Append(session_calls,
           [op |-> op, session |-> GeneratorNext(db_session_generator).session])
    /\ UNCHANGED <<dryRun, trades, transactions, transfers, active_monitor_tasks,
                   monitors, cmd, tick, firedTiers, ready>>

\* The operations of one TradingBot, as far as their first line.
NextSession == \E op \in Operations : GetDbSession(op)

SpecSession == Init /\ [][NextSession]_vars

-----------------------------------------------------------------------------
(* A mint of more than six decimals *)

\* 10**(input_mint_decimals - 6) for a mint whose decimals, which
\* get_quote_and_swap fetches, are more than the 6 of the placeholder
\* token_decimals; scaled down.
DecimalsRatio == 4

\* get_quote_and_swap: amount / 10**input_mint_decimals for such a mint
NormalizeMint(lamports) == (lamports * InvSellFraction) \div DecimalsRatio

\* CmdSellSwapResult for such a mint: outside dry run ca_sold is the amount
\* get_quote_and_swap returns (line 384).
CmdSellSwapResultMint(r) ==
    /\ cmd.pc = "sell_swap"
    /\ cmd' = IF r.raised \/ ~r.sig THEN CmdIdle
              ELSE [cmd EXCEPT !.pc = "sell_mc", !.sol = r.sol, !.lamports = 0,
                               !.ca_sold = IF dryRun THEN @
                                           ELSE NormalizeMint(cmd.lamports)]
    /\ UNCHANGED <<firedTiers, dryRun, session, trades, transactions, transfers,
                   active_monitor_tasks, monitors, tick>>

\* The program as main.py starts it, trading such a mint.
NextMint ==
    \/ \E ca \in CAs, target \in Targets, pct \in Percents, bal \in Balances :
           CmdBuy(ca, target, pct, bal) /\ Ran(CmdProc)
    \/ CmdBuySpawn /\ Ran(CmdProc)
    \/ \E m \in 1..MaxTasks, r \in get_token_market_cap :
           MonPolled(m, r) /\ Ran(m)
    \/ \E m \in 1..MaxTasks, r \in BuyResults : MonSwapResult(m, r) /\ Ran(m)
    \/ \E m \in 1..MaxTasks : CleanupTask(m)
    \/ \E ca \in CAs : CmdSell(ca) /\ Ran(CmdProc)
    \/ CmdSellCall /\ Ran(CmdProc)
    \/ \E r \in SellResults : CmdSellSwapResultMint(r) /\ Ran(CmdProc)
    \/ CmdSellApply /\ Ran(CmdProc)
    \/ CmdSellSent /\ Ran(CmdProc)
    \/ CmdRejected /\ Ran(CmdProc)

SpecMint == Init /\ [][NextMint]_vars

-----------------------------------------------------------------------------
(* Properties *)

\* The handler that inserted fill f has not yet passed its call of
\* _transfer_realized_pnl.
Settling(f) ==
    \/ tick.pc = "sold" /\ tick.fill = f
    \/ cmd.pc = "sell_sent" /\ cmd.fill = f

\* C1: each trigger percent sells at most once on a trade: an auto-sell fill
\* is never recorded for a percent that has already sold on that trade.
C1_TierFiresAtMostOnce ==
    [][(tick.pc = "swap" /\ tick'.pc = "sold")
           => sell_triggers[tick.k] \notin firedTiers[Head(tick.queue)]]_vars

\* C2: for every trade, current_ca_held is initial_ca_bought minus the
\* quantities of its exit fills, and it is never negative.
C2_QuantityLedger ==
    \A id \in 1..Len(trades) :
        /\ trades[id].current_ca_held
               = trades[id].initial_ca_bought - SumCa(ExitFills(id))
        /\ trades[id].current_ca_held >= 0

C4_BuyOnActiveRejected ==
    [][/\ (/\ cmd.pc = "idle"
           /\ cmd'.kind = "buy"
           /\ \E i \in 1..Len(trades) :
                  /\ trades[i].ca_address = cmd'.ca
                  /\ trades[i].status = "active")
          => /\ cmd'.pc = "reject"
             /\ UNCHANGED <<trades, transactions, transfers, monitors,
                            active_monitor_tasks>>
       /\ (cmd.pc = "reject" /\ cmd' # cmd)
          => /\ cmd' = CmdIdle
             /\ UNCHANGED <<trades, transactions, transfers, monitors,
                            active_monitor_tasks>>]_vars

\* A buy command is being rejected because of the active trade of its
\* ca_address.
C4_RejectedOnActiveTrade ==
    /\ cmd.pc = "reject"
    /\ cmd.kind = "buy"
    /\ cmd.reason = "trade_exists"
    /\ \E i \in 1..Len(trades) :
           trades[i].ca_address = cmd.ca /\ trades[i].status = "active"

\* C5: no two active trades have the same ca_address.
C5_OneActiveTradePerCa ==
    \A i, j \in 1..Len(trades) :
        (/\ trades[i].status = "active"
         /\ trades[j].status = "active"
         /\ trades[i].ca_address = trades[j].ca_address) => i = j

\* Two entry monitors have been created for one ca_address, both have ended,
\* and the ca_address has an active trade.
C5_SecondMonitorEnded ==
    /\ Len(monitors) = 2
    /\ monitors[1].ca = monitors[2].ca
    /\ TaskDone(1) /\ TaskDone(2)
    /\ \E i \in 1..Len(trades) :
           trades[i].ca_address = monitors[2].ca /\ trades[i].status = "active"

\* C6: whatever the interleaving of a manual sell and the auto-sell pass,
\* a trade's quantity and realized result account for every exit fill, and
\* the exit fills together sell no more than the trade bought.
C6_SellsSerialized ==
    \A id \in 1..Len(trades) :
        /\ trades[id].initial_ca_bought - trades[id].current_ca_held
               = SumCa(ExitFills(id))
        /\ trades[id].realized_pnl_sol = SumPnl(ExitFills(id))
        /\ SumCa(ExitFills(id)) <= trades[id].initial_ca_bought

\* C7: a fill is settled at most once: calling the settlement again for a
\* fill that has its transfer adds no transfer.
C7_SettledOncePerFill ==
    \A f \in 1..Len(transactions) : Cardinality(TransfersOf(f)) <= 1

\* C8: once the handler that recorded an exit fill with a positive
\* pnl_realized_this_tx is past its settlement call, there is exactly one
\* transfer for the fill, of that amount, in dry run as outside it.
C8_PositiveFillTransferredOnce ==
    \A f \in 1..Len(transactions) :
        (/\ transactions[f].tx_type \in {"sell_auto", "sell_manual"}
         /\ transactions[f].pnl_realized_this_tx > 0
         /\ ~Settling(f))
            => /\ Cardinality(TransfersOf(f)) = 1
               /\ \A i \in TransfersOf(f) :
                      transfers[i].amount = transactions[f].pnl_realized_this_tx

\* C9: every transfer is of a positive amount.
C9_OnlyPositiveTransfers ==
    \A i \in 1..Len(transfers) : transfers[i].amount > 0

\* Outside dry run, the handler that recorded an exit fill with a result of
\* exactly zero is past its settlement call, and the fill has no transfer.
C9_NonPositiveFillNotTransferred ==
    /\ ~dryRun
    /\ \E f \in 1..Len(transactions) :
           /\ transactions[f].tx_type \in {"sell_auto", "sell_manual"}
           /\ transactions[f].pnl_realized_this_tx = 0
           /\ ~Settling(f)
           /\ TransfersOf(f) = {}

\* C10: a step that records an exit fill with proceeds P and quantity Q
\* gives the fill the result P - (initial_sol_spent / initial_ca_bought) * Q,
\* lowers the trade's current_ca_held by Q and raises its realized_pnl_sol
\* by that result.
C10_ExitFillAccounting ==
    [][(Len(transactions') = Len(transactions) + 1
        /\ transactions'[Len(transactions')].tx_type
               \in {"sell_auto", "sell_manual"})
           => LET fill == transactions'[Len(transactions')]
                  id == fill.trade_id
                  P == fill.sol_amount
                  Q == fill.ca_amount
              IN /\ fill.pnl_realized_this_tx * trades[id].initial_ca_bought
                        = P * trades[id].initial_ca_bought
                              - trades[id].initial_sol_spent * Q
                 /\ trades'[id].current_ca_held
                        = trades[id].current_ca_held - Q
                 /\ trades'[id].realized_pnl_sol
                        = trades[id].realized_pnl_sol
                              + fill.pnl_realized_this_tx]_vars

\* Scenario A at the scale of the model: 1000 spent for 16 units, the first
\* quarter (4 units) sold for 350 gives a result of 100, 12 units held and
\* a realized result of 100.
C10_ScenarioA ==
    \E id \in 1..Len(trades) :
        /\ trades[id].initial_sol_spent = 1000
        /\ trades[id].initial_ca_bought = 16
        /\ trades[id].current_ca_held = 12
        /\ trades[id].realized_pnl_sol = 100
        /\ \E f \in ExitFills(id) :
               /\ transactions[f].tx_type = "sell_auto"
               /\ transactions[f].sol_amount = 350
               /\ transactions[f].ca_amount = 4
               /\ transactions[f].pnl_realized_this_tx = 100

\* An entry monitor that has not ended.
Running(m) == monitors[m].pc \in {"poll", "swap"}

\* C11: a monitor whose polls all miss the target (no value, or a value
\* above it) never polls more than NumChecks times; its last miss ends it
\* with the "Buy monitoring concluded" message as its only status message,
\* without a swap, and no trade and no transaction is added by any of its
\* polls.
C11_EntryTimeout ==
    [][\A m \in 1..Len(monitors) :
          /\ monitors'[m].pc = "poll" => monitors'[m].i < NumChecks
          /\ (/\ monitors[m].pc = "poll"
              /\ monitors[m].msgs = 0
              /\ monitors'[m].pc = "done")
             => /\ monitors[m].i + 1 = NumChecks
                /\ monitors'[m].out = "concluded"
                /\ monitors'[m].msgs = 1
                /\ ~monitors'[m].swapped
                /\ UNCHANGED <<trades, transactions>>
          /\ (/\ monitors[m].pc = "poll"
              /\ monitors'[m].pc = "poll"
              /\ monitors'[m].i # monitors[m].i)
             => UNCHANGED <<trades, transactions>>]_vars

\* A monitor has ended after its last miss, and the tables are empty.
C11_TimedOutNothingRecorded ==
    /\ trades = <<>>
    /\ transactions = <<>>
    /\ \E m \in 1..Len(monitors) :
           /\ monitors[m].pc = "done"
           /\ monitors[m].out = "concluded"
           /\ monitors[m].msgs = 1
           /\ ~monitors[m].swapped

\* C12: a manual sell whose swap returned a signature records one
\* sell_manual fill for all that the trade holds, leaves current_ca_held at
\* zero and sets the status to "completed".
C12_ManualCloseSellsAll ==
    [][(cmd.pc = "sell_mc" /\ cmd'.pc = "sell_sent")
           => /\ Len(transactions') = Len(transactions) + 1
              /\ transactions'[Len(transactions')].tx_type = "sell_manual"
              /\ transactions'[Len(transactions')].trade_id = cmd.id
              /\ transactions'[Len(transactions')].ca_amount
                     = trades[cmd.id].current_ca_held
              /\ trades'[cmd.id].current_ca_held = 0
              /\ trades'[cmd.id].status = "completed"]_vars

C16_SwapAlwaysRecorded ==
    \A m \in 1..Len(monitors) :
        (monitors[m].pc = "done" /\ monitors[m].swapped)
            => monitors[m].out = "bought"

\* C17: a pass ends only at the last trade of its list: whatever happens
\* at a trade, the trades after it are still examined in the same pass.
C17_PassReachesEveryTrade ==
    [][(tick.pc # "idle" /\ tick'.pc = "idle") => Len(tick.queue) = 1]_vars

\* C18: a monitor that has ended has sent exactly one status message.
C18_OneStatusMessage ==
    \A m \in 1..Len(monitors) :
        monitors[m].pc = "done" => monitors[m].msgs = 1

\* C19: while a trade is active the pass comes to examine a trade, unless
\* no trade is active any more.
C19_ActiveTradeExamined ==
    (ActiveTrades # {}) ~> (tick.pc = "fetch" \/ ActiveTrades = {})

\* C20: a trade that is "completed" stays "completed".
C20_StatusForwardOnly ==
    [][\A id \in 1..Len(trades) :
          trades[id].status = "completed"
              => trades'[id].status = "completed"]_vars

\* The scheduled pass is at a trade that a manual sell has completed in the
\* meantime.
C20_PassOnCompletedTrade ==
    /\ tick.pc \in {"swap", "sold", "failed"}
    /\ trades[Head(tick.queue)].status = "completed"

\* C21: a transaction row, once inserted, keeps its place and all its
\* fields: no step changes or removes a row of the table.
C21_FillsAppendOnly ==
    [][/\ Len(transactions') >= Len(transactions)
       /\ \A f \in 1..Len(transactions) : transactions'[f] = transactions[f]]_vars

\* The three inserts have acted: the table holds a buy, a sell_auto and a
\* sell_manual row.
C21_AllKindsInserted ==
    \A type \in {"buy", "sell_auto", "sell_manual"} :
        \E f \in 1..Len(transactions) : transactions[f].tx_type = type

\* C22: a monitor goes from its poll to the swap only with a market cap
\* that the poll returned (one of MarketCaps, not None) and that is at or
\* below its target.
C22_SwapOnlyAtOrBelowTarget ==
    [][\A m \in 1..Len(monitors) :
          (monitors[m].pc = "poll" /\ monitors'[m].pc = "swap")
              => /\ monitors'[m].mc \in MarketCaps
                 /\ monitors'[m].mc <= monitors[m].target]_vars

\* A monitor is at its swap with a market cap equal to its target.
C22_SwapAtTarget ==
    \E m \in 1..Len(monitors) :
        /\ monitors[m].pc = "swap"
        /\ monitors[m].mc = monitors[m].target

\* C23: the "Buy monitoring concluded ... Target MC not reached" message
\* ends only monitors that never came to a swap: a monitor whose swaps
\* failed (each with its BUY FAILED message, counted in msgs) does not end
\* on it.
C23_FailedSwapsNotReportedAsTimeout ==
    \A m \in 1..Len(monitors) :
        (monitors[m].pc = "done" /\ monitors[m].out = "concluded")
            => monitors[m].msgs = 1

\* What a monitor can still do: two steps (poll, swap) for each check left.
MonitorRank(mon) ==
    IF mon.pc \in {"done", "cleaned"} THEN 0
    ELSE 2 * (NumChecks - mon.i) - (IF mon.pc = "swap" THEN 1 ELSE 0)

\* What a pass can still do: for each trade left, the fetch and two steps
\* (swap, message) for each entry of sell_triggers after the current one.
TickRank(tk) ==
    IF tk.pc = "idle" THEN 0
    ELSE Len(tk.queue) * (2 * Len(sell_triggers) + 2)
             - (IF tk.pc = "fetch" THEN 0
                ELSE IF tk.pc = "swap" THEN 2 * tk.k - 1
                ELSE 2 * tk.k)

\* C24: every step of a monitor that has not ended brings it closer to its
\* end (its polls are numbered below NumChecks), and every step of a pass
\* brings the pass closer to its end: the entries of sell_triggers are
\* tried in increasing order, each at most once for a trade in a pass.
C24_BoundedWork ==
    [][/\ \A m \in 1..Len(monitors) :
              /\ Running(m) => monitors[m].i < NumChecks
              /\ (Running(m) /\ monitors'[m] # monitors[m])
                     => /\ MonitorRank(monitors'[m]) < MonitorRank(monitors[m])
                        /\ MonitorRank(monitors'[m]) >= 0
       /\ tick.pc \in {"swap", "sold", "failed"}
              => tick.k \in 1..Len(sell_triggers)
       /\ (tick.pc # "idle" /\ tick' # tick)
              => /\ TickRank(tick') < TickRank(tick)
                 /\ TickRank(tick') >= 0]_vars

\* The pass has tried the last entry of sell_triggers for a trade, after
\* the three before it.
C24_FourthAttempt ==
    /\ tick.pc = "failed"
    /\ tick.k = Len(sell_triggers)

\* C25: the amount of every auto-sell is a quarter of initial_ca_bought,
\* whatever the trade still holds.
C25_ChunkOfInitialQuantity ==
    tick.pc = "swap"
        => tick.amt * InvSellFraction
               = trades[Head(tick.queue)].initial_ca_bought

\* An auto-sell is under way on a trade that holds less than it bought.
C25_ChunkAfterEarlierSale ==
    /\ tick.pc = "swap"
    /\ trades[Head(tick.queue)].current_ca_held
           < trades[Head(tick.queue)].initial_ca_bought
    /\ tick.amt > 0

\* C26: the trigger percents are in increasing order, and the pass goes to
\* a swap for the entry k of sell_triggers only if the increase of the
\* market cap it fetched is at least that percent and the trade holds at
\* least 99% of the chunk; the entries are taken in order, and an entry is
\* passed over only if its condition does not hold.
C26_TierConditions ==
    [][(tick'.pc = "swap" /\ tick.pc \in {"fetch", "sold", "failed"})
           => LET t == trades[Head(tick.queue)]
                  prev == IF tick.pc = "fetch" THEN 0 ELSE tick.k
                  Gain(j) == (tick'.mc - t.buy_mc_usd) * 100
                                 >= sell_triggers[j] * t.buy_mc_usd
                  Held == t.current_ca_held * InvSellFraction * ToleranceDen
                              >= t.initial_ca_bought * ToleranceNum
              IN /\ \A i, j \in 1..Len(sell_triggers) :
                        i < j => sell_triggers[i] < sell_triggers[j]
                 /\ tick'.queue = tick.queue
                 /\ tick.pc # "fetch" => tick'.mc = tick.mc
                 /\ tick'.k > prev
                 /\ Gain(tick'.k)
                 /\ Held
                 /\ \A j \in (prev + 1)..(tick'.k - 1) : ~(Gain(j) /\ Held)]_vars

\* The pass sells at the first trigger on an increase that reaches the
\* first percent and not the second.
C26_FirstTierOnly ==
    /\ tick.pc = "swap"
    /\ tick.k = 1
    /\ LET t == trades[Head(tick.queue)]
       IN /\ (tick.mc - t.buy_mc_usd) * 100 >= sell_triggers[1] * t.buy_mc_usd
          /\ (tick.mc - t.buy_mc_usd) * 100 < sell_triggers[2] * t.buy_mc_usd

\* The trade holds less than 99% of its chunk.
Short(t) ==
    t.current_ca_held * InvSellFraction * ToleranceDen
        < t.initial_ca_bought * ToleranceNum

C28_EmptyTradeCompleted ==
    [][(/\ tick.pc # "idle"
        /\ (tick'.pc = "idle" \/ tick'.queue # tick.queue)
        /\ \/ tick.pc \in {"sold", "failed"}
           \/ \E v \in MarketCaps : TickFetched(Some(v)))
           => (trades'[Head(tick.queue)].current_ca_held < Eps
                   => trades'[Head(tick.queue)].status = "completed")]_vars

\* C29: a manual sell of a trade that holds nothing calls no swap and
\* inserts no transaction; it sets the trade to "cancelled" when the trade
\* has no exit fill and to "completed" otherwise.
C29_ZeroQuantityClose ==
    [][/\ (cmd.pc = "idle" /\ cmd'.pc = "sell_init")
              => trades[cmd'.id].current_ca_held > 0
       /\ (cmd.pc = "sell_none" /\ cmd' # cmd)
              => /\ cmd'.pc = "idle"
                 /\ transactions' = transactions
                 /\ trades'[cmd.id].status =
                        IF ExitFills(cmd.id) = {} THEN "cancelled"
                        ELSE "completed"]_vars

\* C30: a poll that returns None leaves the tables alone and takes the
\* monitor to its next check (to its end after the last one); a fetch of
\* the pass that returns None leaves the tables alone and takes the pass to
\* the next trade of its list (to its end after the last one); a pass that
\* starts examines every active trade.
C30_AbsentIsTransient ==
    [][/\ \A m \in 1..Len(monitors) :
              MonPolled(m, None)
                  => /\ UNCHANGED <<trades, transactions, transfers>>
                     /\ IF monitors[m].i + 1 < NumChecks
                        THEN monitors'[m] = [monitors[m] EXCEPT !.i = @ + 1]
                        ELSE /\ monitors'[m].pc = "done"
                             /\ monitors'[m].out = "concluded"
       /\ TickFetched(None)
              => /\ UNCHANGED <<trades, transactions, transfers>>
                 /\ tick' = IF Len(tick.queue) > 1
                            THEN [TickIdle EXCEPT !.pc = "fetch",
                                                  !.queue = Tail(tick.queue)]
                            ELSE TickIdle
       /\ TickStart
              => \A id \in 1..Len(trades) :
                     trades[id].status = "active"
                         => \E i \in 1..Len(tick'.queue) : tick'.queue[i] = id]_vars

\* The pass is at the second trade of its list and the first trade is as
\* it was bought: the pass has gone past it without a sale.
C30_SecondTradeAfterSkip ==
    /\ tick.pc = "fetch"
    /\ Len(trades) = Len(HeldCAs)
    /\ Len(tick.queue) = 1
    /\ transactions = [i \in 1..Len(HeldCAs) |-> transactions[i]]

\* C31: a buy command that meets a permanent error ends at once: with no
\* balance or an amount of zero it is rejected and creates no task; for a
\* ca_address that names no token, the first poll ends the monitor, so that
\* it polls no second time and calls no swap.
C31_PermanentErrorEndsAtOnce ==
    [][/\ (~dryRun /\ \E target \in InvalidCaTargets, pct \in InvalidCaPercents :
                           CmdBuy(InvalidCa, target, pct, 0))
              => cmd'.pc = "reject"
       /\ (cmd.pc = "reject" /\ cmd.kind = "buy" /\ cmd' # cmd)
              => cmd' = CmdIdle /\ UNCHANGED <<monitors, active_monitor_tasks>>
       /\ \A m \in 1..Len(monitors) :
              (monitors[m].ca = InvalidCa /\ MonPolled(m, None))
                  => monitors'[m].pc = "done"]_vars

\* C32: recording an exit is atomic: a step that changes a trade's
\* current_ca_held or realized_pnl_sol also inserts an exit fill of that
\* trade, whether or not the insertion of the fill fails.
C32_ExitRecordedAtomically ==
    [][\A id \in 1..Len(trades) :
          (\/ trades'[id].current_ca_held # trades[id].current_ca_held
           \/ trades'[id].realized_pnl_sol # trades[id].realized_pnl_sol)
              => /\ Len(transactions') = Len(transactions) + 1
                 /\ transactions'[Len(transactions')].trade_id = id
                 /\ transactions'[Len(transactions')].tx_type
                        \in {"sell_auto", "sell_manual"}]_vars

\* C33: the gain that lets a trigger sell is (currentUnitPrice - unitCost)
\* / unitCost * 100 with unitCost = initial_sol_spent / initial_ca_bought
\* and currentUnitPrice the price per token of line 199, current_mc /
\* initial_ca_bought: when the pass goes to the swap of a trigger, that gain
\* has reached the trigger percent (both sides multiplied by
\* initial_ca_bought and by unitCost).
C33_GainFromUnitCost ==
    [][(tick.pc # "swap" /\ tick'.pc = "swap")
           => LET t == trades[Head(tick'.queue)]
              IN (tick'.mc - t.initial_sol_spent) * 100
                     >= sell_triggers[tick'.k] * t.initial_sol_spent]_vars

\* C34: when _get_sol_price_usd answers 0, the report is still made and the
\* unrealized result of a trade with a market cap is computed with a rate
\* of 1, (current_mc / initial_ca_bought - unit cost) * current_ca_held,
\* not with a price of zero.
C34_IdentityRateWhenUnavailable ==
    [][\A v \in MarketCaps :
          CmdReportFetched(Some(v), 0)
              => LET t == trades[Head(cmd.queue)]
                 IN /\ Len(cmd'.lines) = Len(cmd.lines) + 1
                    /\ cmd'.lines[Len(cmd'.lines)].unrealized_pnl_sol
                           = ((v - t.initial_sol_spent) * t.current_ca_held)
                                 \div t.initial_ca_bought]_vars

\* C35: every call of _get_db_session gives a session, whatever the number
\* of calls made before it on the same TradingBot.
C35_EveryCallGetsSession ==
    \A i \in 1..Len(session_calls) : session_calls[i].session

C37_CompletedHoldsNothing ==
    \A id \in 1..Len(trades) :
        trades[id].status = "completed" => trades[id].current_ca_held < Eps

\* C38: once a trade is "completed", no step changes its current_ca_held or
\* its realized_pnl_sol, adds an exit fill for it or calls a swap for it,
\* whichever operation takes the step.
C38_CompletedIsFrozen ==
    [][\A id \in 1..Len(trades) :
          trades[id].status = "completed"
              => /\ trades'[id].current_ca_held = trades[id].current_ca_held
                 /\ trades'[id].realized_pnl_sol = trades[id].realized_pnl_sol
                 /\ ExitFills(id)' = ExitFills(id)
                 /\ ~(/\ tick.pc # "swap" /\ tick'.pc = "swap"
                      /\ Head(tick'.queue) = id)
                 /\ ~(/\ cmd.pc # "sell_swap" /\ cmd'.pc = "sell_swap"
                      /\ cmd'.id = id)]_vars

\* C39: a swap of the pass or of a manual sell that returns no signature
\* leaves the trades, the transactions and the transfers as they are, and so
\* does the pass when it goes on after its failure message, unless it goes
\* to the swap of a later trigger.
C39_FailedExitChangesNothing ==
    [][/\ (\E r \in SellResults : ~r.sig /\ TickSwapResult(r))
              => UNCHANGED <<trades, transactions, transfers>>
       /\ (\E r \in SellResults : ~r.sig /\ CmdSellSwapResult(r))
              => UNCHANGED <<trades, transactions, transfers>>
       /\ (tick.pc = "failed" /\ tick' # tick)
              => UNCHANGED <<trades, transactions, transfers>>]_vars

\* The swap of the pass has returned without a signature for a trade that
\* is active and holds tokens.
C39_AfterFailedAutoSell ==
    /\ tick.pc = "failed"
    /\ trades[Head(tick.queue)].status = "active"
    /\ trades[Head(tick.queue)].current_ca_held > 0

\* C40: a transfer is requested only after the trade update and the exit
\* fill it settles have been committed: the step that adds a transfer
\* finds the fill in the table, with the amount of the transfer as its
\* result, and neither inserts a transaction nor changes the quantity or
\* the realized result of a trade; every transfer is for a fill of the table.
C40_TransferAfterRecording ==
    [][/\ Len(transfers') > Len(transfers)
              => LET x == transfers'[Len(transfers')]
                 IN /\ x.fill \in 1..Len(transactions)
                    /\ transactions[x.fill].tx_type \in {"sell_auto", "sell_manual"}
                    /\ transactions[x.fill].pnl_realized_this_tx = x.amount
                    /\ transactions' = transactions
                    /\ \A id \in 1..Len(trades) :
                           /\ trades'[id].current_ca_held
                                  = trades[id].current_ca_held
                           /\ trades'[id].realized_pnl_sol
                                  = trades[id].realized_pnl_sol
       /\ \A i \in 1..Len(transfers') :
              transfers'[i].fill \in 1..Len(transactions')]_vars

\* Transfers have been made for an automatic and for a manual exit.
C40_BothKindsSettled ==
    \E i, j \in 1..Len(transfers) :
        /\ transactions[transfers[i].fill].tx_type = "sell_auto"
        /\ transactions[transfers[j].fill].tx_type = "sell_manual"

=============================================================================
